---------------------------- MODULE Spec2Model ----------------------------
(***************************************************************************)
(* Model of accesspanel.AccessPanel (src/accesspanel/accesspanel.py).      *)
(*                                                                         *)
(* The panel owns one multi-line text field (self.output) and one offset,  *)
(* editing_pos, that separates the read-only history from the trailing     *)
(* input area.  The text field is modelled as a sequence of characters     *)
(* with an insertion point; positions are 0-based offsets as in wx.        *)
(* The event loop dispatches one event at a time: a key-down event runs    *)
(* OnKeyDown and then, when the handler called e.Skip(), the default       *)
(* processing of the text field.                                           *)
(***************************************************************************)
EXTENDS Integers, Sequences, FiniteSets

(* ----------------------------- bounds ---------------------------------- *)

\* Longest content of the text field that is explored.
MaxLen == 4

\* Longest message that is delivered.
MaxMsgLen == 2

\* Number of calls of Send that are explored.
MaxSent == 2

(* ---------------------------- constants -------------------------------- *)

WXK_BACK == 8
WXK_RETURN == 13
WXK_DELETE == 127
MOD_NONE == 0
MOD_SHIFT == 4
MOD_CONTROL == 2

\* Key codes of the letter key A, of a key whose character lies outside
\* Latin-1 (GREEK CAPITAL LETTER OMEGA, for which GetUnicodeKey() is 937)
\* and of the arrow keys (GetUnicodeKey() is 0, GetKeyCode() is used).
KEY_A == 65
KEY_OMEGA == 937
WXK_LEFT == 314
WXK_UP == 315
WXK_RIGHT == 316

CR == "\r"
LF == "\n"

\* The key-down events that are explored: (key, modifiers).
KeyEvents ==
    { <<WXK_RETURN, MOD_NONE>>, <<WXK_BACK, MOD_NONE>>, <<WXK_BACK, MOD_SHIFT>>,
      <<KEY_A, MOD_NONE>>, <<KEY_OMEGA, MOD_NONE>>,
      <<WXK_LEFT, MOD_NONE>>, <<WXK_RIGHT, MOD_NONE>>,
      <<WXK_UP, MOD_CONTROL>>, <<WXK_DELETE, MOD_NONE>> }

\* Characters a message is made of, and the messages that are delivered.
MsgChars == {"X", CR, LF}

RECURSIVE SeqsUpTo(_, _)
SeqsUpTo(S, n) ==
    IF n = 0 THEN { <<>> }
    ELSE LET shorter == SeqsUpTo(S, n - 1)
         IN shorter \cup { Append(s, c) : s \in shorter, c \in S }

Messages == SeqsUpTo(MsgChars, MaxMsgLen)

\* The messages an application sends, from a thread or from its OnInput,
\* and the key-down events that are interleaved with the messages given to
\* Send: typing, submitting and moving into the history.
SentMessages == { <<>>, <<LF>>, <<"X">> }

SendKeyEvents ==
    { <<KEY_A, MOD_NONE>>, <<WXK_RETURN, MOD_NONE>>, <<WXK_LEFT, MOD_NONE>> }

(* ------------------------ the text field (wx) -------------------------- *)

Min(a, b) == IF a < b THEN a ELSE b
Max(a, b) == IF a < b THEN b ELSE a

\* TextCtrl.GetLastPosition()
GetLastPosition(t) == Len(t)

\* TextCtrl.GetRange(from, to): the characters at offsets from .. to-1;
\* empty when from >= to, cut at the end of the text.
GetRange(t, from, to) == SubSeq(t, from + 1, Min(to, Len(t)))

\* TextCtrl.SetValue(value)
SetValue(value) == value

\* TextCtrl.AppendText(s)
AppendText(t, s) == t \o s

\* TextCtrl.Remove(from, to): the text without the offsets from .. to-1.
Remove(t, from, to) ==
    IF from < to THEN GetRange(t, 0, from) \o GetRange(t, to, Len(t)) ELSE t

\* The insertion point after Remove(from, to).  The platforms differ: the
\* insertion point either follows the text (it stays where it was unless it
\* lay in or after the removed range) or is left at the start of the range.
RemoveInsertionPoints(t, c, from, to) ==
    LET f == Min(from, Len(t))
        e == Min(to, Len(t))
        follows == IF c <= f \/ e <= f THEN c
                   ELSE IF c >= e THEN c - (e - f) ELSE f
    IN { follows, Min(f, Len(Remove(t, from, to))) }

(* ------------------------- message normalisation ----------------------- *)

\* str.splitlines(): the lines of s, split at \n, \r\n and \r, without the
\* line endings; a trailing line ending opens no further line.
RECURSIVE SplitFrom(_, _, _)
SplitFrom(s, i, line) ==
    IF i > Len(s) THEN (IF line = <<>> THEN <<>> ELSE <<line>>)
    ELSE IF s[i] = CR /\ i < Len(s) /\ s[i + 1] = LF
         THEN <<line>> \o SplitFrom(s, i + 2, <<>>)
    ELSE IF s[i] = CR \/ s[i] = LF
         THEN <<line>> \o SplitFrom(s, i + 1, <<>>)
    ELSE SplitFrom(s, i + 1, Append(line, s[i]))

splitlines(s) == SplitFrom(s, 1, <<>>)

\* "\r\n".join(lines)
RECURSIVE join(_)
join(lines) ==
    IF lines = <<>> THEN <<>>
    ELSE IF Len(lines) = 1 THEN lines[1]
    ELSE lines[1] \o <<CR, LF>> \o join(Tail(lines))

\* str.endswith("\r\n")
endswith(s) == Len(s) >= 2 /\ s[Len(s) - 1] = CR /\ s[Len(s)] = LF

\* OnMessage, lines 178-181.
Normalize(message) ==
    LET joined == join(splitlines(message))
    IN IF endswith(joined) THEN joined ELSE joined \o <<CR, LF>>

(* ------------------------------ state ---------------------------------- *)

VARIABLES
    text,         \* content of self.output
    cursor,       \* insertion point of self.output
    editing_pos,  \* self.editing_pos
    pc,           \* where the event loop is: "idle", "OnInput", "default"
    ev,           \* the event being dispatched, or the last one dispatched
                  \* (again: the call of ClearInput follows another one)
    queue,        \* the message events posted by Send and not yet dispatched
    sent,         \* the messages given to Send, in the order of the calls
    delivered     \* the messages of the posted events OnMessage has handled

sendVars == <<queue, sent, delivered>>

vars == <<text, cursor, editing_pos, pc, ev, queue, sent, delivered>>

NoEvent ==
    [op |-> "none", key |-> 0, modifiers |-> 0, message |-> <<>>,
     skip |-> FALSE, pos |-> 0, input |-> <<>>, again |-> FALSE]

\* AccessPanel.__init__: an empty text field and editing_pos = 0.
Init ==
    /\ text = <<>>
    /\ cursor = 0
    /\ editing_pos = 0
    /\ pc = "idle"
    /\ ev = NoEvent
    /\ queue = <<>>
    /\ sent = <<>>
    /\ delivered = <<>>

(* ---------------------------- AccessPanel ------------------------------ *)

\* The input property: the text between editing_pos and the end.
input(t, ep) == GetRange(t, ep, GetLastPosition(t))

\* IsEditing(beyond_one), with the insertion point c.
IsEditing(c, ep, beyond_one) ==
    LET pos == IF beyond_one THEN c - 1 ELSE c
    IN pos < ep

\* Variant of ClearedText that removes nothing.
ClearedText_none(t, ep) == t

\* Variant of ClearedText that removes from editing_pos - 1.
ClearedText_before(t, ep) == Remove(t, ep - 1, GetLastPosition(t))

\* Variant of ClearedText that removes from editing_pos + 1.
ClearedText_offByOne(t, ep) == Remove(t, ep + 1, GetLastPosition(t))

\* ClearInput: the text after the removal; editing_pos becomes its length.
ClearedText(t, ep) == Remove(t, ep, GetLastPosition(t))


\* TextCtrl.SetInsertionPoint(pos), on the text t.
SetInsertionPoint(t, pos) == Max(0, Min(pos, Len(t)))

\* Variant of MovedPos that moves the insertion point wherever it is.
MovedPos_always(pos, ep, message) == pos + Len(message)

\* Variant of MovedPos that tests pos > editing_pos.
MovedPos_strict(pos, ep, message) ==
    IF pos > ep THEN pos + Len(message) ELSE pos

\* OnMessage, lines 193-195: the insertion point follows the input area.
MovedPos(pos, ep, message) ==
    IF pos >= ep THEN pos + Len(message) ELSE pos

\* Variant of EditingPosAfter that reads the end of the text once the input
\* is pasted back.
EditingPosAfter_late(shown, inp) == GetLastPosition(AppendText(shown, inp))

\* OnMessage, lines 197-200: the editing position is the end of the text
\* once the message is appended and before the input is pasted back.
EditingPosAfter(shown, inp) == GetLastPosition(shown)

\* The text OnMessage displays for each message, lines 178-181.
Normalized == [e \in Messages |-> Normalize(e)]

\* OnMessage, lines 176-201, as a function of the text field and editing_pos.
Reconciled(t, c, ep, e) ==
    LET message == Normalized[e]
        pos == c
        output == GetRange(t, 0, ep)
        inp == input(t, ep)
        shown == AppendText(SetValue(output), message)
        after == AppendText(shown, inp)
    IN [text |-> after,
        editing_pos |-> EditingPosAfter(shown, inp),
        cursor |-> SetInsertionPoint(after, MovedPos(pos, ep, message))]

\* The room the posted messages will take in the text once displayed.
RECURSIVE Pending(_)
Pending(q) ==
    IF q = <<>> THEN 0 ELSE Len(Normalized[Head(q)]) + Pending(Tail(q))

\* OnMessage runs on the message e, lines 167-201.
Receive(e) ==
    /\ pc = "idle"
    /\ LET r == Reconciled(text, cursor, editing_pos, e)
       IN /\ Len(r.text) <= MaxLen
          /\ Len(text) + Pending(queue) <= MaxLen
          /\ text' = r.text
          /\ editing_pos' = r.editing_pos
          /\ cursor' = r.cursor
    /\ pc' = "idle"
    /\ ev' = [NoEvent EXCEPT !.op = "OnMessage", !.message = Normalized[e]]

\* A message event is dispatched to OnMessage.
OnMessage(e) ==
    /\ Receive(e)
    /\ UNCHANGED sendVars

\* (variant: the event is put before the events already posted)
Posted_front(q, e) == <<e>> \o q

\* wx.PostEvent: the event is put behind the events already posted.
Posted(q, e) == Append(q, e)

\* Send, lines 203-206, from any thread and at any moment: the message is
\* posted as an event.
Send(message) ==
    /\ Len(sent) < MaxSent
    /\ Len(text) + (IF pc = "default" /\ ev.key \in {KEY_A, KEY_OMEGA} THEN 1 ELSE 0)
         + Pending(queue) + Len(Normalized[message]) <= MaxLen
    /\ queue' = Posted(queue, message)
    /\ sent' = Append(sent, message)
    /\ UNCHANGED <<text, cursor, editing_pos, pc, ev, delivered>>

\* The event loop dispatches the oldest posted event to OnMessage (the
\* handler bound to EVT_MESSAGE, line 123) between two other events.
Deliver ==
    /\ queue # <<>>
    /\ Receive(Head(queue))
    /\ queue' = Tail(queue)
    /\ delivered' = Append(delivered, Head(queue))
    /\ UNCHANGED sent

\* ClearInput called by the application.
ClearInput ==
    /\ pc = "idle"
    /\ text' = ClearedText(text, editing_pos)
    /\ editing_pos' = GetLastPosition(text')
    /\ cursor' \in RemoveInsertionPoints(text, cursor, editing_pos, GetLastPosition(text))
    /\ pc' = "idle"
    /\ ev' = [NoEvent EXCEPT !.op = "ClearInput",
                             !.again = (ev.op = "ClearInput")]
    /\ UNCHANGED sendVars

\* OnKeyDown, line 219: the key submits the input.
Submits(key, modifiers) == key = WXK_RETURN /\ modifiers = MOD_NONE

\* OnKeyDown, lines 225-226: the key is typed before the input area and is
\* sent to the end of the text.
Redirected(pos, ep, key, modifiers) ==
    pos < ep /\ modifiers = MOD_NONE /\ 0 < key /\ key < 256

\* OnKeyDown, lines 225-228: the insertion point after the redirection.
CursorAfterRedirect(t, c, pos, ep, key, modifiers) ==
    IF Redirected(pos, ep, key, modifiers)
    THEN SetInsertionPoint(t, GetLastPosition(t))
    ELSE c

\* OnKeyDown, line 231: backspace is refused.
Vetoed(c, ep, key, modifiers) ==
    key = WXK_BACK /\ modifiers = MOD_NONE /\ IsEditing(c, ep, TRUE)

\* Keys whose default processing inserts a character.
Inserts(key) == key \in {KEY_A, KEY_OMEGA}

\* OnKeyDown for a key that does not submit: lines 210-216 and 224-235.
OnKeyDown(key, modifiers) ==
    /\ pc = "idle"
    /\ ~Submits(key, modifiers)
    /\ Inserts(key) => Len(text) + Pending(queue) < MaxLen
    /\ LET pos == cursor
           moved == CursorAfterRedirect(text, cursor, pos, editing_pos, key, modifiers)
           skip == ~Vetoed(moved, editing_pos, key, modifiers)
       IN /\ cursor' = moved
          /\ pc' = IF skip THEN "default" ELSE "idle"
          /\ ev' = [NoEvent EXCEPT !.op = "OnKeyDown", !.key = key,
                                   !.modifiers = modifiers, !.skip = skip]
    /\ UNCHANGED <<text, editing_pos>>
    /\ UNCHANGED sendVars

\* OnKeyDown for RETURN, lines 210-221: the input is read, cleared and then
\* given to OnInput, which runs while the handler is suspended there.
OnKeyDownSubmit(key, modifiers) ==
    /\ pc = "idle"
    /\ Submits(key, modifiers)
    /\ text' = ClearedText(text, editing_pos)
    /\ editing_pos' = GetLastPosition(text')
    /\ cursor' \in RemoveInsertionPoints(text, cursor, editing_pos, GetLastPosition(text))
    /\ pc' = "OnInput"
    /\ ev' = [NoEvent EXCEPT !.op = "OnKeyDown", !.key = key,
                             !.modifiers = modifiers, !.skip = TRUE,
                             !.pos = cursor, !.input = input(text, editing_pos)]
    /\ UNCHANGED sendVars

\* OnInput is meant to be overridden in child classes (lines 159-165): the
\* override may display a message by calling OnMessage itself, while
\* OnKeyDown waits for it to return (one such call per submission is
\* explored).
OnInputSends(e) ==
    /\ pc = "OnInput"
    /\ ev.message = <<>>
    /\ LET r == Reconciled(text, cursor, editing_pos, e)
       IN /\ Len(r.text) <= MaxLen
          /\ text' = r.text
          /\ editing_pos' = r.editing_pos
          /\ cursor' = r.cursor
    /\ pc' = "OnInput"
    /\ ev' = [ev EXCEPT !.message = Normalized[e]]
    /\ UNCHANGED sendVars

\* OnInput returns (lines 159-165: by itself it does nothing) and OnKeyDown
\* goes on, lines 222-235.
OnInputReturns ==
    /\ pc = "OnInput"
    /\ LET moved == CursorAfterRedirect(text, cursor, ev.pos, editing_pos,
                                        ev.key, ev.modifiers)
           skip == FALSE /\ ~Vetoed(moved, editing_pos, ev.key, ev.modifiers)
       IN /\ cursor' = moved
          /\ pc' = IF skip THEN "default" ELSE "idle"
          /\ ev' = [ev EXCEPT !.skip = skip, !.pos = 0]
    /\ UNCHANGED <<text, editing_pos>>
    /\ UNCHANGED sendVars

\* The character the text field inserts for a key ("W" stands for the
\* letter of KEY_OMEGA).
CharOf(key, modifiers) ==
    IF key = KEY_A THEN (IF modifiers = MOD_SHIFT THEN "A" ELSE "a") ELSE "W"

\* Default processing of a key by the text field, as a function of its
\* content and insertion point: a character key inserts its character at
\* the insertion point, BACKSPACE (with or without Shift) deletes the
\* character before it, DELETE the character after it, the arrow keys
\* move it.
DefaultText(t, c, key, modifiers) ==
    IF Inserts(key)
    THEN GetRange(t, 0, c) \o <<CharOf(key, modifiers)>> \o GetRange(t, c, Len(t))
    ELSE IF key = WXK_BACK /\ c > 0 THEN Remove(t, c - 1, c)
    ELSE IF key = WXK_DELETE /\ c < Len(t) THEN Remove(t, c, c + 1)
    ELSE t

DefaultCursor(t, c, key, modifiers) ==
    IF Inserts(key) THEN c + 1
    ELSE IF key = WXK_BACK \/ key = WXK_LEFT THEN Max(0, c - 1)
    ELSE IF key = WXK_RIGHT THEN Min(Len(t), c + 1)
    ELSE c

\* The insertion points the default processing may leave: CTRL + UP moves
\* the insertion point up (where to depends on the platform and on the
\* layout of the lines), the other keys are deterministic.
DefaultCursors(t, c, key, modifiers) ==
    IF key = WXK_UP THEN 0 .. c ELSE { DefaultCursor(t, c, key, modifiers) }

\* e.Skip(), lines 234-235: the text field processes the key itself.
DefaultProcessing ==
    /\ pc = "default"
    /\ text' = DefaultText(text, cursor, ev.key, ev.modifiers)
    /\ cursor' \in DefaultCursors(text, cursor, ev.key, ev.modifiers)
    /\ pc' = "idle"
    /\ UNCHANGED <<editing_pos, ev>>
    /\ UNCHANGED sendVars

Next ==
    \/ \E e \in Messages : OnMessage(e)
    \/ ClearInput
    \/ \E k \in KeyEvents : OnKeyDown(k[1], k[2])
    \/ \E k \in KeyEvents : OnKeyDownSubmit(k[1], k[2])
    \/ \E e \in SentMessages : OnInputSends(e)
    \/ OnInputReturns
    \/ DefaultProcessing

Spec == Init /\ [][Next]_vars

\* The panel fed through Send: the messages are posted, from any thread, and
\* the event loop dispatches them between the key-down events.  The event
\* loop dispatches every posted event, and the handlers return.
SendNext ==
    \/ \E m \in SentMessages : Send(m)
    \/ Deliver
    \/ \E k \in SendKeyEvents : OnKeyDown(k[1], k[2])
    \/ \E k \in SendKeyEvents : OnKeyDownSubmit(k[1], k[2])
    \/ OnInputReturns
    \/ DefaultProcessing

SendSpec ==
    /\ Init
    /\ [][SendNext]_vars
    /\ SF_vars(Deliver)
    /\ WF_vars(OnInputReturns)
    /\ WF_vars(DefaultProcessing)

(* ------------------------------ claims --------------------------------- *)

\* The pending input of the current state.
Input == input(text, editing_pos)

\* The step is the dispatch of a message to OnMessage.
MessageStep == pc = "idle" /\ ev'.op = "OnMessage"

\* The step is the run of OnKeyDown on a key-down event, up to the call of
\* OnInput when the key submits.
KeyDownStep == pc = "idle" /\ ev'.op = "OnKeyDown"

\* C1: no step of a key-down event (the handler or the default processing
\* of the text field that it lets through) changes the text before
\* editing_pos, unless it is OnMessage appending output: the history is
\* read-only to the user.
C1_HistoryReadOnly ==
    [][ev'.op = "OnKeyDown" /\ ~(pc = "OnInput" /\ pc' = "OnInput") =>
         GetRange(text', 0, editing_pos') = GetRange(text, 0, editing_pos)]_vars

\* C2: from a state with editing_pos <= length, the input property has the
\* same value after OnMessage as before it, for every message.
C2_ContentPreservation ==
    [][MessageStep /\ editing_pos <= Len(text) =>
         input(text', editing_pos') = input(text, editing_pos)]_vars

\* A message has been delivered while an input was pending.
C2_Witness ==
    /\ ev.op = "OnMessage"
    /\ editing_pos <= Len(text)
    /\ Len(Input) >= 1
    /\ Len(ev.message) >= 3

\* C3: 0 <= editing_pos <= length of the text in every reachable state.
C3_BoundaryInRange == 0 <= editing_pos /\ editing_pos <= Len(text)

\* C4: after OnMessage, editing_pos is the new length minus the length of
\* the input pending before the call, which is the old editing_pos plus the
\* length of the normalised message.
C4_BoundaryAfterAppend ==
    [][MessageStep =>
         /\ editing_pos' = Len(text') - Len(input(text, editing_pos))
         /\ editing_pos' = editing_pos + Len(ev'.message)]_vars

\* C5: when the insertion point is at or after editing_pos before
\* OnMessage, its offset from editing_pos is the same after the call.
C5_CursorRelative ==
    [][MessageStep /\ cursor >= editing_pos =>
         cursor' - editing_pos' = cursor - editing_pos]_vars

\* A message has been delivered while the insertion point was inside a
\* pending input, between its two characters.
C5_Witness ==
    /\ ev.op = "OnMessage"
    /\ Len(Input) = 2
    /\ cursor - editing_pos = 1

\* C6: on an unmodified RETURN the handler reads the input, clears it and
\* then calls OnInput once with the text read; when OnInput starts the input
\* is empty and editing_pos is the length of the text; OnInput is entered by
\* no other step, and when it returns the handler ends without a second
\* call and without skipping the event.
C6_SubmitOrdering ==
    [][/\ (KeyDownStep /\ ev'.key = WXK_RETURN /\ ev'.modifiers = MOD_NONE =>
             /\ pc' = "OnInput"
             /\ ev'.input = input(text, editing_pos)
             /\ text' = GetRange(text, 0, editing_pos)
             /\ input(text', editing_pos') = <<>>
             /\ editing_pos' = Len(text'))
       /\ (pc # "OnInput" /\ pc' = "OnInput" =>
             KeyDownStep /\ ev'.key = WXK_RETURN /\ ev'.modifiers = MOD_NONE)
       /\ (pc = "OnInput" =>
             /\ pc' \in {"OnInput", "idle"}
             /\ ev'.input = ev.input)
       /\ (pc = "OnInput" /\ pc' # "OnInput" =>
             /\ pc' = "idle"
             /\ ~ev'.skip
             /\ text' = text
             /\ editing_pos' = editing_pos)]_vars

\* OnInput is running with a submitted text that was not empty.
C6_Witness ==
    /\ pc = "OnInput"
    /\ Len(ev.input) >= 1
    /\ Input = <<>>
    /\ editing_pos = Len(text)

\* C7: an unmodified BACKSPACE pressed with the insertion point at or before
\* editing_pos is not skipped and leaves the text, the insertion point and
\* editing_pos as they were.
C7_BackspaceProtected ==
    [][KeyDownStep /\ ev'.key = WXK_BACK /\ ev'.modifiers = MOD_NONE
         /\ cursor <= editing_pos =>
         /\ pc' = "idle"
         /\ ~ev'.skip
         /\ text' = text
         /\ cursor' = cursor
         /\ editing_pos' = editing_pos]_vars

\* C8: IsEditing() is true exactly when the insertion point is at or after
\* editing_pos, and IsEditing(beyond_one=True) exactly when the insertion
\* point minus one is.
C8_IsEditing ==
    /\ IsEditing(cursor, editing_pos, FALSE) <=> cursor >= editing_pos
    /\ IsEditing(cursor, editing_pos, TRUE) <=> cursor - 1 >= editing_pos

\* C9: an unmodified key of a printable character pressed with the
\* insertion point before editing_pos is skipped with the insertion point
\* moved to the end of the text, so that the text field appends the
\* character at the end of the input instead of inserting it in the history.
C9_PrintableRedirect ==
    [][KeyDownStep /\ Inserts(ev'.key) /\ ev'.modifiers = MOD_NONE
         /\ cursor < editing_pos =>
         /\ pc' = "default"
         /\ ev'.skip
         /\ cursor' = GetLastPosition(text)
         /\ DefaultText(text', cursor', ev'.key, ev'.modifiers)
              = Append(text, CharOf(ev'.key, ev'.modifiers))]_vars

\* C10: after OnMessage from a state with editing_pos = b, the text before
\* b is unchanged, the text from b to the new editing_pos is the normalised
\* message and the text after the new editing_pos is the input that was
\* pending.
C10_AppendBeforeInput ==
    [][MessageStep =>
         /\ GetRange(text', 0, editing_pos) = GetRange(text, 0, editing_pos)
         /\ GetRange(text', editing_pos, editing_pos') = ev'.message
         /\ GetRange(text', editing_pos', Len(text')) = input(text, editing_pos)]_vars

\* The step is a call of ClearInput by the application.
ClearStep == pc = "idle" /\ ev'.op = "ClearInput"

\* C11: from a state with editing_pos <= length, ClearInput leaves the
\* history alone, the input empty and editing_pos at the length of the text;
\* a second call right after the first changes neither the text nor
\* editing_pos, and leaves the input empty and editing_pos at the length.
C11_ClearIdempotent ==
    [][ClearStep /\ editing_pos <= Len(text) =>
         /\ text' = GetRange(text, 0, editing_pos)
         /\ input(text', editing_pos') = <<>>
         /\ editing_pos' = Len(text')
         /\ (ev'.again => text' = text /\ editing_pos' = editing_pos)]_vars

\* ClearInput has been called twice in a row on a text that is not empty.
C11_Witness ==
    /\ ev.op = "ClearInput"
    /\ ev.again
    /\ Len(text) >= 2
    /\ Input = <<>>
    /\ editing_pos = Len(text)

\* The message with each of its line endings (\r\n, \r or \n) written \r\n
\* and nothing else changed.
RECURSIVE CanonFrom(_, _)
CanonFrom(s, i) ==
    IF i > Len(s) THEN <<>>
    ELSE IF s[i] = CR /\ i < Len(s) /\ s[i + 1] = LF
         THEN <<CR, LF>> \o CanonFrom(s, i + 2)
    ELSE IF s[i] = CR \/ s[i] = LF
         THEN <<CR, LF>> \o CanonFrom(s, i + 1)
    ELSE <<s[i]>> \o CanonFrom(s, i + 1)

\* That message with one line ending added when it ends with none.
WithFinalLineEnding(s) ==
    LET c == CanonFrom(s, 1)
    IN IF endswith(c) THEN c ELSE c \o <<CR, LF>>

\* C12: the text OnMessage appends for a message is the message with every
\* line ending written \r\n, with one line ending added when the message
\* ends with none and nothing added or trimmed when it ends with one.
C12_LineEndings ==
    [][\A e \in Messages :
         OnMessage(e) => ev'.message = WithFinalLineEnding(e)]_vars

\* C13: the command history of the docstring (lines 39-45): the line that
\* was submitted is remembered, and CTRL + UP pressed right after the
\* submission of a non-empty line (no recall is in progress) puts that line
\* in the input area with the insertion point at its end.
C13_RecallPrevious ==
    [][/\ KeyDownStep
       /\ ev'.key = WXK_UP /\ ev'.modifiers = MOD_CONTROL
       /\ ev.op = "OnKeyDown" /\ Submits(ev.key, ev.modifiers)
       /\ ev.input # <<>>
       =>
       /\ input(text', editing_pos') = ev.input
       /\ cursor' = GetLastPosition(text')]_vars

\* C14: editing_pos never decreases, whatever the step (a message, a call
\* of ClearInput, a key-down event and its default processing), and it
\* increases on every OnMessage.
C14_BoundaryMonotonic ==
    [][/\ editing_pos' >= editing_pos
       /\ (MessageStep => editing_pos' > editing_pos)]_vars

\* C15: when the OnInput called for a submission itself calls OnMessage,
\* the handler had left only the history in the text before OnInput
\* started, the message is appended right after it with nothing behind it,
\* and when the key-down handling returns the text is unchanged since, the
\* input is empty and editing_pos is the length of the text.
C15_ReentrantHandler ==
    [][/\ (KeyDownStep /\ Submits(ev'.key, ev'.modifiers) =>
             text' = GetRange(text, 0, editing_pos))
       /\ (pc = "OnInput" /\ pc' = "OnInput" =>
             /\ text' = text \o ev'.message
             /\ ev'.message # <<>>
             /\ input(text', editing_pos') = <<>>
             /\ editing_pos' = Len(text'))
       /\ (pc = "OnInput" /\ pc' = "idle" /\ ev.message # <<>> =>
             /\ text' = text
             /\ input(text', editing_pos') = <<>>
             /\ editing_pos' = Len(text'))]_vars

\* The handling of a RETURN that submitted a non-empty line has returned,
\* and its OnInput had displayed a message.
C15_Witness ==
    /\ pc = "idle"
    /\ ev.op = "OnKeyDown"
    /\ Submits(ev.key, ev.modifiers)
    /\ ev.input # <<>>
    /\ Len(ev.message) >= 2
    /\ GetRange(text, Len(text) - Len(ev.message), Len(text)) = ev.message
    /\ Input = <<>>
    /\ editing_pos = Len(text)

\* C16: when the insertion point is before editing_pos before OnMessage,
\* it is at the same offset after the call, still before editing_pos.
C16_CursorInHistory ==
    [][MessageStep /\ cursor < editing_pos =>
         /\ cursor' = cursor
         /\ cursor' < editing_pos']_vars

\* A message has been delivered while the insertion point was in the
\* history, before the place where the message was appended.
C16_Witness ==
    /\ pc = "idle"
    /\ ev.op = "OnMessage"
    /\ editing_pos <= Len(text)
    /\ cursor >= 1
    /\ cursor < editing_pos - Len(ev.message)

\* C17: for a key-down that is neither an unmodified RETURN, nor an
\* unmodified key of a printable character with the insertion point before
\* editing_pos, nor an unmodified BACKSPACE with the insertion point at or
\* before editing_pos, OnKeyDown changes neither the text, nor the insertion
\* point, nor editing_pos, and skips the event to the text field.
C17_PassThrough ==
    [][/\ KeyDownStep
       /\ ~Submits(ev'.key, ev'.modifiers)
       /\ ~(ev'.modifiers = MOD_NONE /\ Inserts(ev'.key) /\ cursor < editing_pos)
       /\ ~(ev'.modifiers = MOD_NONE /\ ev'.key = WXK_BACK /\ cursor <= editing_pos)
       =>
       /\ text' = text
       /\ cursor' = cursor
       /\ editing_pos' = editing_pos
       /\ ev'.skip
       /\ pc' = "default"]_vars

=============================================================================
